---- MODULE Spec2Model ----
(***************************************************************************)
(* Search state holder (SearchService) and result pipeline                 *)
(* (AppComponent.searchResults$) of angular-search-and-display.            *)
(*                                                                         *)
(* Strings are sequences of one-character strings, so that trim(),         *)
(* split/join, toLowerCase(), toString() and parseInt() are computed.      *)
(* The URL query string is a function from the keys present to their       *)
(* (string) values.                                                        *)
(***************************************************************************)
EXTENDS Integers, Sequences, FiniteSets

VARIABLES
  phase,          \* "new" -> "constructed" (service built) -> "running" (view subscribed)
                  \* -> "destroyed" (component torn down)
  config,         \* <<>> (no SEARCH_CONFIG provided) or <<defaultPageSize>>
  url,            \* window.location.search / router query params
  searchText,     \* SearchService.searchText
  page,           \* SearchService.page
  pageSize,       \* SearchService.pageSize
  currentSearch,  \* value held by the BehaviorSubject currentSearch$
  nPublished,     \* number of currentSearch$.next(...) calls so far
  pipe,           \* searchResults$ subscription: "none", "live", "caught"
  inner,          \* id of the fetch switchMap is subscribed to, 0 if none
  pending,        \* HTTP requests issued and not yet completed
  nFetches,       \* number of HTTP requests issued so far
  lastFetch,      \* the most recently issued HTTP request
  displayed,      \* last notification received by the subscriber of searchResults$
  nEmitted,       \* number of next-notifications received by that subscriber
  latestNonBlank, \* index of the most recent published value with non-blank text, 0 if none
  nNonBlank,      \* number of published values with non-blank text
  nCommitOps,     \* number of committing operations performed (construction commit included)
  nInits,         \* number of runs of _initFromUrl
  cancelSearch,   \* the Subject cancelSearch$: "open" or "completed"
  last            \* the operation performed by the last step, with the counters before it

vars == <<phase, config, url, searchText, page, pageSize, currentSearch, nPublished,
          pipe, inner, pending, nFetches, lastFetch, displayed, nEmitted,
          latestNonBlank, nNonBlank, nCommitOps, nInits, cancelSearch, last>>

----
\* Bounds of the exploration.
MaxCommits == 3
MaxPage == 2
MaxLen == 4

\* Texts typed by the user, values of q found in the URL at load, page sizes
\* offered by the paginator, injected default page sizes.
Texts == { <<>>, <<" ">>, <<"a">>, <<"B", " ", "c">> }
UrlTexts == { <<>>, <<" ">>, <<"a">> }
UrlPages == { <<"0">>, <<"2">>, <<"1", "2">> }
UrlLimits == { <<"5">> }
PageSizes == { 5, 25 }
Configs == { <<>>, <<5>>, <<10>> }
Keys == { "q", "page", "limit", "ref" }

\* Search texts handed to searchBooks when the query transformation is checked on its own.
QueryAlphabet == { "a", "B", " " }
QueryTexts == UNION { [1..n -> QueryAlphabet] : n \in 0..MaxLen }

----
\* Strings.
Space == " "

RECURSIVE TrimStart(_)
TrimStart(s) == IF s # <<>> /\ Head(s) = Space THEN TrimStart(Tail(s)) ELSE s

RECURSIVE TrimEnd(_)
TrimEnd(s) ==
  IF s # <<>> /\ s[Len(s)] = Space THEN TrimEnd(SubSeq(s, 1, Len(s) - 1)) ELSE s

Trim(s) == TrimEnd(TrimStart(s))

DigitChars == <<"0", "1", "2", "3", "4", "5", "6", "7", "8", "9">>
IsDigit(c) == \E i \in 1..10 : DigitChars[i] = c
DigitVal(c) == (CHOOSE i \in 1..10 : DigitChars[i] = c) - 1

RECURSIVE NumToString(_)
NumToString(n) ==
  IF n < 10 THEN <<DigitChars[n + 1]>>
  ELSE NumToString(n \div 10) \o <<DigitChars[(n % 10) + 1]>>

NaN == "NaN"

RECURSIVE ParseDigits(_, _)
ParseDigits(s, acc) ==
  IF s # <<>> /\ IsDigit(Head(s))
  THEN ParseDigits(Tail(s), 10 * acc + DigitVal(Head(s)))
  ELSE acc

\* parseInt(s, 10): leading white space skipped, then the longest prefix of digits.
ParseInt(s) ==
  LET t == TrimStart(s)
  IN IF t # <<>> /\ IsDigit(Head(t)) THEN ParseDigits(t, 0) ELSE NaN

ToLower(c) == IF c = "B" THEN "b" ELSE c

SearchQueryNoLowerCase(s) == [i \in 1..Len(s) |-> IF s[i] = Space THEN "+" ELSE s[i]]

\* searchText.split(' ').join('+').toLowerCase()
SearchQuery(s) == [i \in 1..Len(s) |-> IF s[i] = Space THEN "+" ELSE ToLower(s[i])]

----
\* URL query parameters.
\* params.get(k) || d
GetOr(u, k, d) == IF k \in DOMAIN u /\ u[k] # <<>> THEN u[k] ELSE d

\* router.navigate([], {queryParams, queryParamsHandling: 'merge'}):
\* keys of set are written, keys of del (null values) are removed, the rest is kept.
MergeReplace(u, set, del) == set
Merge(u, set, del) ==
  [k \in ((DOMAIN u) \ del) \cup (DOMAIN set) |-> IF k \in DOMAIN set THEN set[k] ELSE u[k]]

----
\* Values of the streams.
Null == [isNull |-> TRUE]
CurrentSearch(st, ps, pg) == [searchText |-> st, pageSize |-> ps, page |-> pg]
NoFetch == [id |-> 0]
NoResult == [kind |-> "none", commit |-> 0]
EmptyResult == [kind |-> "empty", commit |-> 0]

\* JavaScript truthiness of a number and of a string.
TruthyNum(n) == n # 0
TruthyStr(s) == s # <<>>

\* config?.defaultPageSize || 10
DefaultPageSize(cfg) == IF cfg # <<>> /\ TruthyNum(cfg[1]) THEN cfg[1] ELSE 10

----
\* The result pipeline: currentSearch$.pipe(filter, switchMap(searchBooks), catchError).

\* filter(search => search !== null && search.searchText.trim().length > 0)
FilterNotNullOnly(search) == search # Null
Filter(search) == search # Null /\ Len(Trim(search.searchText)) > 0

\* switchMap: the subscriber listens to the inner request fid only while it is
\* the request of the latest value that passed the filter.
SwitchMapAsMergeMap(fid, cur) == TRUE
SwitchMap(fid, cur) == fid = cur

\* catchError placed after switchMap: the error of the inner request reaches it
\* through the outer chain, so the chain to currentSearch$ is closed and the
\* subscriber is switched to a BehaviorSubject holding the empty result.
CatchErrorRethrow == [pipe |-> "errored", notify |-> [kind |-> "error", commit |-> 0], emits |-> 0]
CatchError == [pipe |-> "caught", notify |-> EmptyResult, emits |-> 1]

\* searchBooks(currentSearch): the GET request sent for a value.
searchBooks(search, id, commit) ==
  [id |-> id, commit |-> commit, search |-> search, q |-> SearchQuery(search.searchText),
   page |-> search.page, limit |-> search.pageSize]

\* A value v, published as the commit-th value, reaches the pipeline.
OnValue(v, commit, live) ==
  IF live /\ Filter(v)
  THEN /\ nFetches' = nFetches + 1
       /\ lastFetch' = searchBooks(v, nFetches + 1, commit)
       /\ pending' = pending \cup {lastFetch'}
       /\ inner' = nFetches + 1
  ELSE UNCHANGED <<nFetches, lastFetch, pending, inner>>

\* currentSearch$.next(v)
Publish(v) ==
  /\ currentSearch' = v
  /\ nPublished' = nPublished + 1
  /\ latestNonBlank' = IF Trim(v.searchText) # <<>> THEN nPublished + 1 ELSE latestNonBlank
  /\ nNonBlank' = IF Trim(v.searchText) # <<>> THEN nNonBlank + 1 ELSE nNonBlank
  /\ OnValue(v, nPublished + 1, pipe = "live")

----
\* SearchService.

\* submit(), with the fields as the caller left them.
submit(st, pg, ps) ==
  LET keep == {k \in {"q"} : TruthyStr(st)} \cup {k \in {"page"} : TruthyNum(pg)}
                \cup {k \in {"limit"} : TruthyNum(ps)}
      set == [k \in keep
                |-> CASE k = "q" -> st
                      [] k = "page" -> NumToString(pg)
                      [] k = "limit" -> NumToString(ps)]
      del == {"q", "page", "limit"} \ DOMAIN set
  IN /\ url' = Merge(url, set, del)
     /\ Publish(CurrentSearch(st, ps, pg))

resetPaginationKeep(pg) == pg
resetPagination(pg) == 1

Op(name, arg) ==
  [op |-> name, arg |-> arg, pub |-> nPublished, fet |-> nFetches,
   pipe |-> pipe, inner |-> inner, emitted |-> nEmitted, shown |-> displayed,
   page |-> page, pageSize |-> pageSize, text |-> searchText, url |-> url]

\* State inside the constructor, after the field initialisers and
\* this.pageSize = config?.defaultPageSize || 10, before _initFromUrl().
Init ==
  /\ phase = "new"
  /\ config \in Configs
  /\ \E present \in SUBSET Keys :
       \E u \in [present -> UrlTexts \cup UrlPages \cup UrlLimits \cup {<<"x">>}] :
         /\ "q" \in present => u["q"] \in UrlTexts
         /\ "page" \in present => u["page"] \in UrlPages
         /\ "limit" \in present => u["limit"] \in UrlLimits
         /\ "ref" \in present => u["ref"] = <<"x">>
         /\ url = u
  /\ searchText = <<>>
  /\ page = 1
  /\ pageSize = DefaultPageSize(config)
  /\ currentSearch = Null
  /\ nPublished = 0
  /\ pipe = "none"
  /\ inner = 0
  /\ pending = {}
  /\ nFetches = 0
  /\ lastFetch = NoFetch
  /\ displayed = NoResult
  /\ nEmitted = 0
  /\ latestNonBlank = 0
  /\ nNonBlank = 0
  /\ nCommitOps = 0
  /\ nInits = 0
  /\ cancelSearch = "open"
  /\ last = Op("none", 0)

\* page read from the URL: parseInt(params.get('page') || '1', 10)
UrlPageIgnored(u) == 1
UrlPage(u) == ParseInt(GetOr(u, "page", <<"1">>))

\* page size read from the URL: parseInt(params.get('limit') || this.pageSize.toString(), 10)
UrlPageSize(u, dflt) == ParseInt(GetOr(u, "limit", NumToString(dflt)))

\* if (searchText) in _initFromUrl
InitCommits(st) == TruthyStr(st)

\* The constructor is the only caller of _initFromUrl(); nothing listens to
\* the router, so a navigation does not run it again.
CanInitAfterNavigation == phase = "new" \/ (phase = "running" /\ url # last.url)
CanInit == phase = "new"

\* _initFromUrl(), the rest of the constructor.
initFromUrl ==
  /\ CanInit
  /\ phase' = "constructed"
  /\ nInits' = nInits + 1
  /\ last' = Op("initFromUrl", url)
  /\ searchText' = GetOr(url, "q", <<>>)
  /\ page' = UrlPage(url)
  /\ pageSize' = UrlPageSize(url, pageSize)
  /\ IF InitCommits(searchText')
     THEN /\ submit(searchText', page', pageSize')
          /\ nCommitOps' = nCommitOps + 1
     ELSE UNCHANGED <<url, currentSearch, nPublished, latestNonBlank, nNonBlank, nCommitOps,
                      nFetches, lastFetch, pending, inner>>
  /\ UNCHANGED <<config, pipe, displayed, nEmitted, cancelSearch>>

\* currentSearch$ is a BehaviorSubject: a new subscriber is handed the current value.
NoReplay == FALSE
ReplaysCurrent == TRUE

\* The view subscribes to searchResults$ (async pipe); the BehaviorSubject
\* currentSearch$ hands its current value to the new subscriber.
Subscribe ==
  /\ phase = "constructed"
  /\ phase' = "running"
  /\ last' = Op("subscribe", 0)
  /\ pipe' = "live"
  /\ OnValue(currentSearch, nPublished, ReplaysCurrent)
  /\ UNCHANGED <<config, url, searchText, page, pageSize, currentSearch, nPublished,
                 latestNonBlank, nNonBlank, nCommitOps, nInits, cancelSearch,
                 displayed, nEmitted>>

CanCommit == phase = "running" /\ nPublished < MaxCommits

\* newSearch(text)
newSearch(text) ==
  /\ CanCommit
  /\ last' = Op("newSearch", text)
  /\ searchText' = text
  /\ page' = resetPagination(page)
  /\ submit(searchText', page', pageSize)
  /\ nCommitOps' = nCommitOps + 1
  /\ UNCHANGED <<phase, config, pageSize, pipe, displayed, nEmitted, nInits, cancelSearch>>

\* setPageSize(size)
setPageSize(size) ==
  /\ CanCommit
  /\ last' = Op("setPageSize", size)
  /\ pageSize' = size
  /\ page' = 1
  /\ submit(searchText, page', pageSize')
  /\ nCommitOps' = nCommitOps + 1
  /\ UNCHANGED <<phase, config, searchText, pipe, displayed, nEmitted, nInits, cancelSearch>>

\* setPage without the assignment this.page = page
setPageNoStore(pg) ==
  /\ CanCommit
  /\ last' = Op("setPage", pg)
  /\ submit(searchText, page, pageSize)
  /\ nCommitOps' = nCommitOps + 1
  /\ UNCHANGED <<phase, config, searchText, page, pageSize, pipe, displayed, nEmitted,
                 nInits, cancelSearch>>

\* setPage(page)
setPage(pg) ==
  /\ CanCommit
  /\ last' = Op("setPage", pg)
  /\ page' = pg
  /\ submit(searchText, page', pageSize)
  /\ nCommitOps' = nCommitOps + 1
  /\ UNCHANGED <<phase, config, searchText, pageSize, pipe, displayed, nEmitted, nInits, cancelSearch>>

\* onPageChange that never takes the page-size branch
onPageChangeAlwaysSetPage(event) ==
  /\ CanCommit
  /\ last' = Op("onPageChange", event)
  /\ page' = event.pageIndex + 1
  /\ submit(searchText, page', pageSize)
  /\ nCommitOps' = nCommitOps + 1
  /\ UNCHANGED <<phase, config, searchText, pageSize, pipe, displayed, nEmitted,
                 nInits, cancelSearch>>

\* onPageChange(event): setPageSize(event.pageSize) when the page size of the
\* event differs from the holder's, setPage(event.pageIndex + 1) otherwise.
onPageChange(event) ==
  /\ CanCommit
  /\ last' = Op("onPageChange", event)
  /\ IF event.pageSize # pageSize
     THEN /\ pageSize' = event.pageSize
          /\ page' = 1
          /\ submit(searchText, page', pageSize')
     ELSE /\ page' = event.pageIndex + 1
          /\ submit(searchText, page', pageSize)
          /\ UNCHANGED pageSize
  /\ nCommitOps' = nCommitOps + 1
  /\ UNCHANGED <<phase, config, searchText, pipe, displayed, nEmitted, nInits, cancelSearch>>

\* Events of the paginator: a page index, and the current page size or one of
\* the sizes offered.
PageEvents == [pageIndex : 0..(MaxPage - 1), pageSize : PageSizes \cup {pageSize}]

\* submit() called on its own (search button)
Submit ==
  /\ CanCommit
  /\ last' = Op("submit", 0)
  /\ submit(searchText, page, pageSize)
  /\ nCommitOps' = nCommitOps + 1
  /\ UNCHANGED <<phase, config, searchText, page, pageSize, pipe, displayed, nEmitted, nInits, cancelSearch>>

\* The HTTP request f completes with a response.
FetchOk(f) ==
  /\ f \in pending
  /\ pending' = pending \ {f}
  /\ last' = Op("fetchOk", f)
  /\ IF pipe = "live" /\ SwitchMap(f.id, inner)
     THEN /\ displayed' = [kind |-> "result", commit |-> f.commit]
          /\ nEmitted' = nEmitted + 1
          /\ inner' = IF f.id = inner THEN 0 ELSE inner
     ELSE UNCHANGED <<displayed, nEmitted, inner>>
  /\ UNCHANGED <<phase, config, url, searchText, page, pageSize, currentSearch, nPublished,
                 latestNonBlank, nNonBlank, nCommitOps, nInits, cancelSearch,
                 pipe, nFetches, lastFetch>>

\* The HTTP request f fails (transport or decode error).
FetchFail(f) ==
  /\ f \in pending
  /\ pending' = pending \ {f}
  /\ last' = Op("fetchFail", f)
  /\ IF pipe = "live" /\ SwitchMap(f.id, inner)
     THEN /\ pipe' = CatchError.pipe
          /\ displayed' = CatchError.notify
          /\ nEmitted' = nEmitted + CatchError.emits
          /\ inner' = 0
     ELSE UNCHANGED <<pipe, displayed, nEmitted, inner>>
  /\ UNCHANGED <<phase, config, url, searchText, page, pageSize, currentSearch, nPublished,
                 latestNonBlank, nNonBlank, nCommitOps, nInits, cancelSearch,
                 nFetches, lastFetch>>

\* Destruction of the view ends the subscription the view holds on
\* searchResults$ (the component itself holds none).
ViewKeepsSubscription(p) == p
ViewUnsubscribes(p) == IF p = "none" THEN p ELSE "closed"

\* ngOnDestroy(): this.$search.getCancelSubject().complete(), together with
\* the destruction of the view.
ngOnDestroy ==
  /\ phase = "running"
  /\ phase' = "destroyed"
  /\ last' = Op("ngOnDestroy", 0)
  /\ cancelSearch' = "completed"
  /\ pipe' = ViewUnsubscribes(pipe)
  /\ UNCHANGED <<config, url, searchText, page, pageSize, currentSearch, nPublished,
                 latestNonBlank, nNonBlank, nCommitOps, nInits, inner, pending, nFetches,
                 lastFetch, displayed, nEmitted>>

Next ==
  \/ initFromUrl
  \/ Subscribe
  \/ \E text \in Texts : newSearch(text)
  \/ \E size \in PageSizes : setPageSize(size)
  \/ \E pg \in 1..MaxPage : setPage(pg)
  \/ \E event \in PageEvents : onPageChange(event)
  \/ Submit
  \/ \E f \in pending : FetchOk(f)
  \/ \E f \in pending : FetchFail(f)
  \/ ngOnDestroy

Spec == Init /\ [][Next]_vars

----
\* Vocabulary of the properties.
Blank(text) == Trim(text) = <<>>
CommitOps == {"newSearch", "setPageSize", "setPage", "submit", "onPageChange"}
Delivered == nEmitted = last.emitted + 1

----
\* C1. Latest-wins: a response is delivered to the displayed result stream only
\* if its request belongs to the most recent non-empty commit at that moment,
\* and once every request has completed successfully the displayed result is
\* the one of the most recent non-empty commit, in whatever order the requests
\* completed.
LatestWins ==
  /\ (last.op = "fetchOk" /\ Delivered) => last.arg.commit = latestNonBlank
  /\ (displayed.kind = "result" /\ pending = {} /\ pipe = "live")
        => displayed.commit = latestNonBlank

\* The request of an earlier commit completed after the later commit's result
\* was displayed, and was discarded.
LatestWinsWitness ==
  /\ last.op = "fetchOk"
  /\ last.arg.commit < latestNonBlank
  /\ ~Delivered
  /\ pending = {}
  /\ displayed = [kind |-> "result", commit |-> latestNonBlank]

\* C2. After a request has failed the result stream remains usable: every later
\* commit with non-blank text still issues a request.
UsableAfterFailure ==
  (last.op \in CommitOps /\ ~Blank(searchText)) => nFetches = last.fet + 1

\* C3. When the request of the latest commit fails, the next value the
\* subscriber receives is the empty result, and the subscriber never receives
\* an error notification.
FailureGivesEmptyResult ==
  /\ (last.op = "fetchFail" /\ last.pipe = "live" /\ last.arg.commit = latestNonBlank)
        => displayed = EmptyResult /\ Delivered
  /\ displayed.kind # "error"
  /\ pipe # "errored"

FailureGivesEmptyResultWitness ==
  /\ last.op = "fetchFail"
  /\ last.arg.commit = latestNonBlank
  /\ last.pipe = "live"
  /\ displayed = EmptyResult

\* C4. No request is ever issued for the null value or for a value whose
\* searchText is empty or white space only.
NoFetchForBlank ==
  /\ lastFetch # NoFetch => lastFetch.search # Null /\ ~Blank(lastFetch.search.searchText)
  /\ \A f \in pending : f.search # Null /\ ~Blank(f.search.searchText)

\* A value with blank text was published to the live pipeline and no request was issued.
NoFetchForBlankWitness ==
  /\ last.op \in CommitOps
  /\ last.pipe = "live"
  /\ currentSearch # Null
  /\ Blank(currentSearch.searchText)
  /\ nPublished = last.pub + 1
  /\ nFetches = last.fet

\* C5. A commit with empty or white-space text clears the displayed results:
\* whenever the most recent commit has blank text, no result is displayed,
\* whatever was displayed before it and whether or not a request of an earlier
\* commit was still in flight.
BlankCommitClears ==
  (nPublished > 0 /\ latestNonBlank < nPublished) => displayed.kind # "result"

\* C6. After newSearch with an empty or white-space text the URL holds none of
\* q, page and limit, and the unrelated parameters are kept.
BlankSearchClearsUrl ==
  (last.op = "newSearch" /\ Blank(last.arg))
     => /\ (DOMAIN url) \cap {"q", "page", "limit"} = {}
        /\ "ref" \in DOMAIN last.url => ("ref" \in DOMAIN url /\ url["ref"] = last.url["ref"])

\* C7. setPageSize(size), called while a search text is set, resets page to 1
\* and produces exactly one new commit and exactly one new request, with
\* limit = size and page = 1.
SetPageSizeFetchesOnce ==
  (last.op = "setPageSize" /\ ~Blank(searchText))
     => /\ page = 1
        /\ nPublished = last.pub + 1
        /\ currentSearch = CurrentSearch(searchText, last.arg, 1)
        /\ nFetches = last.fet + 1
        /\ lastFetch.limit = last.arg
        /\ lastFetch.page = 1

\* C8. After newSearch(text), for any text and any prior page, the holder's
\* page is 1 and the value it committed has page = 1.
NewSearchResetsPage ==
  last.op = "newSearch"
     => /\ page = 1
        /\ (nPublished = last.pub + 1 /\ currentSearch # Null) => currentSearch.page = 1

NewSearchResetsPageWitness ==
  /\ last.op = "newSearch"
  /\ last.page = 2
  /\ page = 1
  /\ nPublished = last.pub + 1
  /\ currentSearch.page = 1

\* C9. Constructed with a URL whose q is present and non-blank, the holder
\* commits during construction the value {q, URL page or 1, URL limit or the
\* configured default or 10}, and the subscription of the view issues exactly
\* one request, for that value.
ExpectedPage(u) ==
  IF "page" \notin DOMAIN u THEN 1
  ELSE CASE u["page"] = <<"0">> -> 0
         [] u["page"] = <<"2">> -> 2
         [] u["page"] = <<"1", "2">> -> 12

ExpectedPageSize(u, cfg) ==
  IF "limit" \in DOMAIN u THEN 5
  ELSE IF cfg = <<>> THEN 10 ELSE cfg[1]

InitialCommitFromUrl ==
  /\ (last.op = "initFromUrl" /\ "q" \in DOMAIN last.url /\ ~Blank(last.url["q"]))
        => /\ nPublished = 1
           /\ currentSearch = [searchText |-> last.url["q"],
                               page |-> ExpectedPage(last.url),
                               pageSize |-> ExpectedPageSize(last.url, config)]
           /\ nFetches = 0
  /\ (last.op = "subscribe" /\ "q" \in DOMAIN last.url /\ ~Blank(last.url["q"]))
        => /\ nPublished = 1
           /\ nFetches = 1
           /\ pending = {lastFetch}
           /\ lastFetch.search = currentSearch
           /\ lastFetch.page = currentSearch.page
           /\ lastFetch.limit = currentSearch.pageSize

InitialCommitFromUrlWitness ==
  /\ last.op = "subscribe"
  /\ currentSearch = [searchText |-> <<"a">>, page |-> 12, pageSize |-> 5]
  /\ nFetches = 1
  /\ lastFetch.page = 12
  /\ lastFetch.limit = 5

\* C10. Constructed with a URL without q, or with a blank q, the holder commits
\* nothing: the committed stream holds the null marker and no request is issued
\* by construction or by the subscription of the view.
NoInitialCommitWithoutQ ==
  (last.op \in {"initFromUrl", "subscribe"}
     /\ ("q" \notin DOMAIN last.url \/ Blank(last.url["q"])))
     => /\ nPublished = 0
        /\ currentSearch = Null
        /\ nFetches = 0

\* Decimal notation of the numbers that occur as page or page size.
Decimal(n) ==
  CASE n = 0 -> <<"0">>
    [] n = 1 -> <<"1">>
    [] n = 2 -> <<"2">>
    [] n = 3 -> <<"3">>
    [] n = 4 -> <<"4">>
    [] n = 5 -> <<"5">>
    [] n = 10 -> <<"1", "0">>
    [] n = 12 -> <<"1", "2">>
    [] n = 25 -> <<"2", "5">>

Committed == last.op \in CommitOps \cup {"initFromUrl"} /\ nPublished = last.pub + 1

UrlNumber(u, k, n) == IF n = 0 THEN k \notin DOMAIN u ELSE k \in DOMAIN u /\ u[k] = Decimal(n)

NeverPublishesBlank ==
  currentSearch = Null \/ ~Blank(currentSearch.searchText)

\* C15. The failure of a superseded request is discarded: the subscriber
\* receives nothing for it, the pipeline stays connected, and the request of
\* the newest commit is still the one listened to.
SupersededFailureDiscarded ==
  /\ (last.op = "fetchFail" /\ last.pipe = "live" /\ last.arg.commit < latestNonBlank)
        => /\ pipe = "live"
           /\ displayed = last.shown
           /\ nEmitted = last.emitted
           /\ inner = last.inner
  /\ (last.op = "fetchOk" /\ Delivered /\ nFetches > 1 /\ last.arg.id = nFetches)
        => displayed = [kind |-> "result", commit |-> latestNonBlank]

\* An earlier request failed while the request of a newer commit was in
\* flight; the newer one is still listened to.
SupersededFailureDiscardedWitness ==
  /\ last.op = "fetchFail"
  /\ last.arg.commit < latestNonBlank
  /\ last.shown.kind = "none"
  /\ pipe = "live"
  /\ lastFetch \in pending
  /\ lastFetch.commit = latestNonBlank
  /\ inner = lastFetch.id

\* C16. Once the view has subscribed, the number of requests issued equals the
\* number of published values with non-blank searchText, and the request of
\* such a commit carries its page and pageSize.
OneFetchPerCommit ==
  /\ phase \in {"running", "destroyed"} => nFetches = nNonBlank
  /\ (last.op \in CommitOps /\ ~Blank(currentSearch.searchText))
        => /\ nFetches = last.fet + 1
           /\ lastFetch.page = currentSearch.page
           /\ lastFetch.limit = currentSearch.pageSize

\* C17. The URL written by a commit never runs the initialisation again nor
\* causes a further commit: _initFromUrl runs once, at construction, and the
\* number of published values equals the number of committing operations.
NoFeedbackLoop ==
  /\ nInits <= 1
  /\ phase # "new" => nInits = 1
  /\ nPublished = nCommitOps
  /\ last.op \in CommitOps => nPublished = last.pub + 1
  /\ last.op \in {"subscribe", "fetchOk", "fetchFail", "ngOnDestroy"} => nPublished = last.pub

\* Three commits have rewritten the URL, the last one changing it.
NoFeedbackLoopWitness ==
  /\ last.op \in CommitOps
  /\ url # last.url
  /\ nPublished = 3
  /\ nCommitOps = 3
  /\ nInits = 1

\* C18. Every published value has page >= 1 and pageSize >= 1.
PublishedPageValid ==
  currentSearch # Null => currentSearch.page >= 1 /\ currentSearch.pageSize >= 1

----
\* searchBooks applied to one search text.
QueryInit ==
  /\ phase = "running"
  /\ config = <<>>
  /\ url = [k \in {} |-> <<>>]
  /\ searchText \in QueryTexts
  /\ page = 1
  /\ pageSize = DefaultPageSize(config)
  /\ currentSearch = CurrentSearch(searchText, pageSize, page)
  /\ nPublished = 1
  /\ pipe = "live"
  /\ inner = 0
  /\ pending = {}
  /\ nFetches = 0
  /\ lastFetch = NoFetch
  /\ displayed = NoResult
  /\ nEmitted = 0
  /\ latestNonBlank = 0
  /\ nNonBlank = 0
  /\ nCommitOps = 1
  /\ nInits = 1
  /\ cancelSearch = "open"
  /\ last = Op("none", 0)

searchBooksCall ==
  /\ lastFetch = NoFetch
  /\ lastFetch' = searchBooks(currentSearch, 1, 1)
  /\ nFetches' = 1
  /\ last' = Op("searchBooks", searchText)
  /\ UNCHANGED <<phase, config, url, searchText, page, pageSize, currentSearch, nPublished,
                 pipe, inner, pending, displayed, nEmitted, latestNonBlank, nNonBlank,
                 nCommitOps, nInits, cancelSearch>>

QueryNext == searchBooksCall

QuerySpec == QueryInit /\ [][QueryNext]_vars

LowerCase(c) == CASE c = "B" -> "b" [] OTHER -> c

RECURSIVE Collapsed(_)
Collapsed(s) ==
  IF s = <<>> THEN <<>>
  ELSE IF Head(s) = " "
       THEN IF Tail(s) # <<>> /\ Head(Tail(s)) = " "
            THEN Collapsed(Tail(s))
            ELSE <<"+">> \o Collapsed(Tail(s))
       ELSE <<LowerCase(Head(s))>> \o Collapsed(Tail(s))

\* C20. The query sent is the searchText lower-cased with each run of
\* internal white space collapsed to a single '+' (texts without leading or
\* trailing white space, so that every run is internal).
QueryCollapsesRuns ==
  (last.op = "searchBooks" /\ last.arg = Trim(last.arg))
     => lastFetch.q = Collapsed(last.arg)

\* C20 as amended: the query sent has the length of the searchText, with '+'
\* exactly where the searchText has a space and the lower-cased character
\* everywhere else; a run of n spaces gives n '+'.
QueryPlusPerSpace ==
  last.op = "searchBooks"
     => /\ Len(lastFetch.q) = Len(last.arg)
        /\ \A i \in 1..Len(last.arg) :
              /\ last.arg[i] = " " => lastFetch.q[i] = "+"
              /\ last.arg[i] = "a" => lastFetch.q[i] = "a"
              /\ last.arg[i] = "B" => lastFetch.q[i] = "b"

QueryPlusPerSpaceWitness ==
  /\ last.op = "searchBooks"
  /\ last.arg = <<"B", " ", " ", "a">>
  /\ lastFetch.q = <<"b", "+", "+", "a">>

----
\* The page is loaded again from the URL the last navigation left: the
\* component and the service are thrown away and a new service is built,
\* with its field initialisers and the injected default page size, on the
\* same URL.
Reload ==
  /\ phase \in {"constructed", "running", "destroyed"}
  /\ last' = Op("reload", currentSearch)
  /\ phase' = "new"
  /\ searchText' = <<>>
  /\ page' = 1
  /\ pageSize' = DefaultPageSize(config)
  /\ currentSearch' = Null
  /\ nPublished' = 0
  /\ pipe' = "none"
  /\ inner' = 0
  /\ pending' = {}
  /\ nFetches' = 0
  /\ lastFetch' = NoFetch
  /\ displayed' = NoResult
  /\ nEmitted' = 0
  /\ latestNonBlank' = 0
  /\ nNonBlank' = 0
  /\ nCommitOps' = 0
  /\ nInits' = 0
  /\ cancelSearch' = "open"
  /\ UNCHANGED <<config, url>>

ReloadNext == Next \/ Reload

ReloadSpec == Init /\ [][ReloadNext]_vars

\* C21. URL round trip: a holder built from the URL left by a commit with
\* non-empty text commits, as its first value, the value that was committed
\* (same searchText, page and pageSize).
UrlRoundTrip ==
  [][(last.op = "reload" /\ last.arg # Null /\ last.arg.searchText # <<>>)
        => (nPublished' = 1 /\ currentSearch' = last.arg)]_vars

====
